---- MODULE Spec2Model ----
(***************************************************************************)
(* Model of structured-logging-echo: the ContextHandler decorator of       *)
(* package logger, the CorrelationId and AddRouteMetaData middlewares, the *)
(* LogValue methods of Customer and Bank, and the echo server of main.     *)
(*                                                                         *)
(* Go strings that end up as attribute values are sequences of one-letter  *)
(* strings, so that lengths, character sets and concatenations are         *)
(* computed.  Attribute keys, context keys and messages are TLA+ strings.  *)
(***************************************************************************)
EXTENDS Integers, Sequences, FiniteSets, TLC

VARIABLES
    handler,    \* the slog.Handler behind the logger in use
    reqs,       \* per request: position in the middleware chain, *http.Request, results
    last        \* the most recent call into package logger / slog, and what it did

vars == <<handler, reqs, last>>

(***************************************************************************)
(* Bounds of the model.                                                    *)
(***************************************************************************)
MaxRequests == 2    \* requests in flight at once
MaxEntropy == 2     \* distinct outcomes of the entropy source / clock reading
MaxDerive == 2      \* WithAttrs / WithGroup derivations in a row
MaxCtxLen == 2      \* bindings of a context handed to the logger API directly
MaxCustomers == 1   \* len(Bank.Customers)
MaxFruits == 4      \* len(fruits) handed to getFruitByIndex

(***************************************************************************)
(* Program constants.                                                      *)
(***************************************************************************)
LevelInfo == 0
LevelError == 8
IdLength == 32

Levels == {0 - 4, LevelInfo, 4, LevelError}

EmptyString == << >>

charset ==
    << "a","b","c","d","e","f","g","h","i","j","k","l","m",
       "n","o","p","q","r","s","t","u","v","w","x","y","z",
       "A","B","C","D","E","F","G","H","I","J","K","L","M",
       "N","O","P","Q","R","S","T","U","V","W","X","Y","Z",
       "0","1","2","3","4","5","6","7","8","9" >>

hexDigits ==
    << "0","1","2","3","4","5","6","7","8","9","a","b","c","d","e","f" >>

Range(s) == { s[i] : i \in DOMAIN s }

(***************************************************************************)
(* context.Context: the chain of WithValue bindings, oldest first.         *)
(* A bound value is a Go `any`: a string or (for callers of the logger     *)
(* API outside main) a value of another dynamic type.                      *)
(***************************************************************************)
Background == << >>

Nil == [t |-> "nil"]
StringAny(s) == [t |-> "string", s |-> s]
IntAny(n) == [t |-> "int", n |-> n]

WithValue(ctx, key, val) == Append(ctx, [key |-> key, val |-> val])

\* ctx.Value(key): the innermost binding of key, nil when there is none
Value(ctx, key) ==
    LET hits == { i \in DOMAIN ctx : ctx[i].key = key }
    IN  IF hits = {} THEN Nil
        ELSE ctx[CHOOSE i \in hits : \A j \in hits : j <= i].val

(***************************************************************************)
(* package logger                                                          *)
(***************************************************************************)
\* A call's outcome: it returns a value or it panics.
Returned(v) == [panic |-> FALSE, value |-> v]
Panicked == [panic |-> TRUE, value |-> EmptyString]

\* value := ""; if ctxValue != nil { value = ctxValue.(string) }: the
\* unchecked type assertion panics on a non-string dynamic type.
getDefaultValueFromContext(ctx, key) ==
    LET value == EmptyString
        ctxValue == Value(ctx, key)
    IN  IF ctxValue.t # "nil"
        THEN IF ctxValue.t = "string" THEN Returned(ctxValue.s) ELSE Panicked
        ELSE Returned(value)

\* slog values and attributes
StringValue(s) == [kind |-> "String", s |-> s]
IntValue(n) == [kind |-> "Int64", n |-> n]
GroupValue(as) == [kind |-> "Group", attrs |-> as]
LogValuerValue(type, v) == [kind |-> "LogValuer", type |-> type, any |-> v]
Attr(key, value) == [key |-> key, value |-> value]

MetaKeys == <<"correlation_id", "request_method", "request_path", "request_user_agent">>

\* addRequestId with the user agent left out of the group
addRequestId_NoAgent(ctx) ==
    LET correlation == getDefaultValueFromContext(ctx, "correlation_id")
        method == getDefaultValueFromContext(ctx, "request_method")
        path == getDefaultValueFromContext(ctx, "request_path")
    IN  IF correlation.panic \/ method.panic \/ path.panic
        THEN [panic |-> TRUE, as |-> << >>]
        ELSE [panic |-> FALSE,
              as |-> << Attr("meta_information", GroupValue(<<
                          Attr("correlation_id", StringValue(correlation.value)),
                          Attr("request_method", StringValue(method.value)),
                          Attr("request_path", StringValue(path.value)) >>)) >>]

addRequestId(ctx) ==
    LET correlation == getDefaultValueFromContext(ctx, "correlation_id")
        method == getDefaultValueFromContext(ctx, "request_method")
        path == getDefaultValueFromContext(ctx, "request_path")
        agent == getDefaultValueFromContext(ctx, "request_user_agent")
    IN  IF correlation.panic \/ method.panic \/ path.panic \/ agent.panic
        THEN [panic |-> TRUE, as |-> << >>]
        ELSE [panic |-> FALSE,
              as |-> << Attr("meta_information", GroupValue(<<
                          Attr("correlation_id", StringValue(correlation.value)),
                          Attr("request_method", StringValue(method.value)),
                          Attr("request_path", StringValue(path.value)),
                          Attr("request_user_agent", StringValue(agent.value)) >>)) >>]

(***************************************************************************)
(* slog.Record and the values logged by main.                              *)
(***************************************************************************)
NewRecord(t, level, msg) == [time |-> t, level |-> level, msg |-> msg, attrs |-> << >>]

isEmptyGroup(v) == v.kind = "Group" /\ v.attrs = << >>

\* Record.AddAttrs / Record.Add: append in order, leaving out empty groups
RECURSIVE keepAttrs(_)
keepAttrs(as) ==
    IF as = << >> THEN << >>
    ELSE IF isEmptyGroup(Head(as).value) THEN keepAttrs(Tail(as))
         ELSE <<Head(as)>> \o keepAttrs(Tail(as))

\* the new attributes put in front of the ones already present
Record_AddAttrs_Front(r, as) == [r EXCEPT !.attrs = keepAttrs(as) \o @]

Record_AddAttrs(r, as) == [r EXCEPT !.attrs = @ \o keepAttrs(as)]

\* a LogValue that also selects Name
Customer_LogValue_WithName(c) ==
    GroupValue(<< Attr("user_id", StringValue(c.UserId)),
                  Attr("name", StringValue(c.Name)) >>)

\* attributes = append(attributes, slog.Attr{Key: "user_id", ...}); GroupValue(attributes...)
Customer_LogValue(c) ==
    LET attributes == Append(<< >>, Attr("user_id", StringValue(c.UserId)))
    IN  GroupValue(attributes)

\* a LogValue that returns a group of fields instead of the id
Bank_LogValue_AsGroup(b) ==
    GroupValue(<< Attr("branch_id", IntValue(b.BranchId)),
                  Attr("branch_name", StringValue(b.BranchName)) >>)

\* return slog.IntValue(b.BranchId)
Bank_LogValue(b) == IntValue(b.BranchId)

\* Value.Resolve: a LogValuer is replaced by what its LogValue method returns
Resolve(v) ==
    IF v.kind = "LogValuer"
    THEN IF v.type = "Customer" THEN Customer_LogValue(v.any) ELSE Bank_LogValue(v.any)
    ELSE v

(***************************************************************************)
(* The wrapped sink: slog.NewJSONHandler(os.Stdout, &opts).                *)
(* A handler call's effect is [panic, ret, sunk]: whether it panicked,     *)
(* the error it returned ("nil" for none) and the records that reached     *)
(* the sink's Handle, each with the line the sink made of it.              *)
(***************************************************************************)
JSONHandler(minLevel) == [type |-> "JSONHandler", minLevel |-> minLevel, pre |-> << >>]

JSONHandler_Enabled(h, ctx, level) == level >= h.minLevel

JSONHandler_WithAttrs(h, as) ==
    IF as = << >> THEN h ELSE [h EXCEPT !.pre = Append(@, [op |-> "attrs", attrs |-> as])]

JSONHandler_WithGroup(h, name) ==
    IF name = "" THEN h ELSE [h EXCEPT !.pre = Append(@, [op |-> "group", name |-> name])]

\* the JSON object written for r: built-in fields, what WithAttrs/WithGroup
\* preformatted, then the record's attributes with LogValuers resolved
JSONLine(h, r) ==
    [time |-> r.time, level |-> r.level, msg |-> r.msg, pre |-> h.pre,
     attrs |-> [i \in DOMAIN r.attrs |-> Attr(r.attrs[i].key, Resolve(r.attrs[i].value))]]

JSONHandler_Handle(h, ctx, r, writeOk) ==
    [panic |-> FALSE,
     ret |-> IF writeOk THEN "nil" ELSE "write error",
     sunk |-> << [sink |-> h, rec |-> r, line |-> JSONLine(h, r), written |-> writeOk] >>]

(***************************************************************************)
(* logger.ContextHandler{slog.Handler}                                     *)
(***************************************************************************)
ContextHandler(inner) == [type |-> "ContextHandler", Handler |-> inner]

\* an Enabled that lets every level through
ContextHandler_Enabled_Always(ch, ctx, level) == TRUE

ContextHandler_Enabled(ch, ctx, level) == JSONHandler_Enabled(ch.Handler, ctx, level)

\* r.AddAttrs(ch.addRequestId(ctx)...); return ch.Handler.Handle(ctx, r)
ContextHandler_Handle(ch, ctx, r, writeOk) ==
    LET added == addRequestId(ctx)
    IN  IF added.panic THEN [panic |-> TRUE, ret |-> "nil", sunk |-> << >>]
        ELSE JSONHandler_Handle(ch.Handler, ctx, Record_AddAttrs(r, added.as), writeOk)

\* what struct embedding alone would give: the inner handler's own result
ContextHandler_WithAttrs_Promoted(ch, as) == JSONHandler_WithAttrs(ch.Handler, as)

\* return ContextHandler{ch.Handler.WithAttrs(attrs)}
ContextHandler_WithAttrs(ch, as) == ContextHandler(JSONHandler_WithAttrs(ch.Handler, as))

\* return ContextHandler{ch.Handler.WithGroup(name)}
ContextHandler_WithGroup(ch, name) == ContextHandler(JSONHandler_WithGroup(ch.Handler, name))

(***************************************************************************)
(* Calls through the slog.Handler interface (dynamic dispatch), and the    *)
(* slog frontend.                                                          *)
(***************************************************************************)
Handler_Enabled(h, ctx, level) ==
    IF h.type = "ContextHandler" THEN ContextHandler_Enabled(h, ctx, level)
    ELSE JSONHandler_Enabled(h, ctx, level)

Handler_Handle(h, ctx, r, writeOk) ==
    IF h.type = "ContextHandler" THEN ContextHandler_Handle(h, ctx, r, writeOk)
    ELSE JSONHandler_Handle(h, ctx, r, writeOk)

Handler_WithAttrs(h, as) ==
    IF h.type = "ContextHandler" THEN ContextHandler_WithAttrs(h, as)
    ELSE JSONHandler_WithAttrs(h, as)

Handler_WithGroup(h, name) ==
    IF h.type = "ContextHandler" THEN ContextHandler_WithGroup(h, name)
    ELSE JSONHandler_WithGroup(h, name)

SinkOf(h) == IF h.type = "ContextHandler" THEN h.Handler ELSE h

NoEffect == [panic |-> FALSE, ret |-> "nil", sunk |-> << >>]

\* slog.InfoContext / slog.ErrorContext -> Logger.log: nothing happens below
\* the handler's level; otherwise a Record is built and handed to Handle,
\* whose error the frontend drops.
Logger_log(h, ctx, level, msg, args, now, writeOk) ==
    IF ~Handler_Enabled(h, ctx, level) THEN NoEffect
    ELSE [Handler_Handle(h, ctx, Record_AddAttrs(NewRecord(now, level, msg), args), writeOk)
            EXCEPT !.ret = "nil"]

\* main: ctxHandler := logger.ContextHandler{Handler: jsonHandler}; slog.SetDefault
DefaultHandler == ContextHandler(JSONHandler(LevelInfo))

(***************************************************************************)
(* Inputs: Go string literals as character sequences, and the bounded      *)
(* sets the nondeterministic inputs are drawn from.                        *)
(***************************************************************************)
S_GET == <<"G","E","T">>
S_POST == <<"P","O","S","T">>
S_get_customer == <<"/","g","e","t","_","c","u","s","t","o","m","e","r">>
S_get_bank == <<"/","g","e","t","_","b","a","n","k">>
S_missing == <<"/","m","i","s","s","i","n","g">>
S_query == <<"?","x","=","1">>
S_test_agent == <<"t","e","s","t","-","a","g","e","n","t">>
S_curl == <<"c","u","r","l">>

SeqsUpTo(S, n) == UNION { [1..k -> S] : k \in 0..n }

\* what faker.FakeData may fill a Customer / a Bank with
Customers ==
    [UserId : {<<"u","1">>, <<"u","2">>}, Name : {<<"n","1">>, <<"n","2">>},
     EmailId : {<<"e","1">>, <<"e","2">>}, GSTNumber : {<<"g","1">>, <<"g","2">>}]

Banks ==
    [BranchId : {51, 7}, BranchName : {<<"b","1">>, <<"b","2">>},
     BranchSecret : {<<"s","1">>, <<"s","2">>},
     Customers : SeqsUpTo(Customers, MaxCustomers)]

\* a few of them, for the actions that also vary everything else
SomeCustomers == { c \in Customers : c.EmailId = <<"e","1">> /\ c.GSTNumber = <<"g","1">> /\ c.Name = <<"n","1">> }
SomeBanks == { b \in Banks : b.BranchName = <<"b","1">> /\ b.BranchSecret = <<"s","1">> /\ b.BranchId = 51 /\ b.Customers = << >> }

CustomerArgs(c) == << Attr("customer", LogValuerValue("Customer", c)) >>
BankArgs(b) == << Attr("bank", LogValuerValue("Bank", b)) >>

Clock == 1..MaxEntropy

(***************************************************************************)
(* package main: correlation ids.                                          *)
(* The entropy source and the seeded generator are outside the program;    *)
(* each is a function of the entropy / clock value the call happened to    *)
(* get, which the actions choose nondeterministically.                     *)
(***************************************************************************)
\* crypto/rand: the bytes read for entropy value e
RandomBytes(e, n) == [i \in 1..n |-> (e * 89 + i * 53) % 256]

\* rand.New(rand.NewSource(seed)).Intn(n), the i-th draw
Intn(seed, i, n) == (seed * 7919 + i * 37) % n

hexByte(b) == << hexDigits[(b \div 16) + 1], hexDigits[(b % 16) + 1] >>

RECURSIVE hexString(_)
hexString(buf) == IF buf = << >> THEN << >> ELSE hexByte(Head(buf)) \o hexString(Tail(buf))

\* uuid.GenerateUUID: 16 random bytes formatted 8-4-4-4-12 in hexadecimal
GenerateUUID(e) ==
    LET buf == RandomBytes(e, 16)
    IN  hexString(SubSeq(buf, 1, 4)) \o <<"-">> \o hexString(SubSeq(buf, 5, 6)) \o <<"-">>
        \o hexString(SubSeq(buf, 7, 8)) \o <<"-">> \o hexString(SubSeq(buf, 9, 10)) \o <<"-">>
        \o hexString(SubSeq(buf, 11, 16))

\* the loop stopping one character early
randomString_OneShort(length, seed) ==
    [i \in 1..(length - 1) |-> charset[Intn(seed, i, Len(charset)) + 1]]

\* randomBytes[i] = charset[seededRand.Intn(len(charset))] for i over length
randomString(length, seed) ==
    [i \in 1..length |-> charset[Intn(seed, i, Len(charset)) + 1]]

(***************************************************************************)
(* package main: the echo server.  A request is [Method, Path, RawQuery,   *)
(* UserAgent]; c.Request() also carries the context.                       *)
(***************************************************************************)
Requests ==
    { [Method |-> S_GET, Path |-> S_get_customer, RawQuery |-> EmptyString, UserAgent |-> S_test_agent],
      [Method |-> S_GET, Path |-> S_get_bank, RawQuery |-> S_query, UserAgent |-> S_curl],
      [Method |-> S_POST, Path |-> S_missing, RawQuery |-> EmptyString, UserAgent |-> EmptyString] }

\* http.Request.RequestURI: the request target, query string included
RequestURI(q) ==
    IF q.RawQuery = EmptyString THEN q.Path ELSE q.Path \o <<"?">> \o q.RawQuery

\* e.GET("/get_customer", ...); e.GET("/get_bank", ...): the handler the
\* router finds for a method and path
Route(q) ==
    IF q.Path \in {S_get_customer, S_get_bank}
    THEN IF q.Method = S_GET
         THEN IF q.Path = S_get_customer THEN "get_customer" ELSE "get_bank"
         ELSE "MethodNotAllowed"
    ELSE "NotFound"

ReqIds == 1..MaxRequests

Idle == [pc |-> "idle"]

\* one context kept for all requests instead of each request's own
RequestContext_Shared(rs, r) == IF "ctx" \in DOMAIN rs[1] THEN rs[1].ctx ELSE rs[r].ctx

\* c.Request().Context()
RequestContext(rs, r) == rs[r].ctx

\* requestId, err := uuid.GenerateUUID(); if err != nil { requestId = randomString(32) }
CorrelationId_Id(uuid, seed) ==
    IF uuid.err THEN randomString(IdLength, seed) ELSE uuid.id

\* ctx := context.WithValue(c.Request().Context(), "correlation_id", requestId)
CorrelationId_Context(ctx, requestId) == WithValue(ctx, "correlation_id", StringAny(requestId))

\* the three bindings derived from a fresh context instead of the request's
AddRouteMetaData_Context_Fresh(ctx, q) ==
    WithValue(WithValue(WithValue(Background, "request_path", StringAny(RequestURI(q))),
                        "request_method", StringAny(q.Method)),
              "request_user_agent", StringAny(q.UserAgent))

\* a fourth binding that shadows the correlation id with the empty string
AddRouteMetaData_Context_Rebinds(ctx, q) ==
    WithValue(WithValue(WithValue(WithValue(ctx, "request_path", StringAny(RequestURI(q))),
                                  "request_method", StringAny(q.Method)),
                        "request_user_agent", StringAny(q.UserAgent)),
              "correlation_id", StringAny(EmptyString))

\* three WithValue derivations from c.Request().Context(): path, method, user agent
AddRouteMetaData_Context(ctx, q) ==
    WithValue(WithValue(WithValue(ctx, "request_path", StringAny(RequestURI(q))),
                        "request_method", StringAny(q.Method)),
              "request_user_agent", StringAny(q.UserAgent))

\* a middleware that drops the next stage's error
Middleware_Return_Nil(nextResult) == "nil"

\* return next(c)
CorrelationId_Return(nextResult) == nextResult

\* return next(c)
AddRouteMetaData_Return(nextResult) == nextResult

ServerInit ==
    /\ handler = DefaultHandler
    /\ reqs = [r \in ReqIds |-> Idle]
    /\ last = [op |-> "none"]

\* the server accepts a request and starts its middleware chain
Receive(r) ==
    /\ reqs[r].pc = "idle"
    /\ \A p \in ReqIds : p < r => reqs[p].pc # "idle"  \* slots are taken in order
    /\ \E q \in Requests :
        reqs' = [reqs EXCEPT ![r] =
                    [pc |-> "CorrelationId", request |-> q, ctx |-> Background,
                     requestId |-> EmptyString, uuidFailed |-> FALSE,
                     nextCalls |-> [CorrelationId |-> 0, AddRouteMetaData |-> 0],
                     ret |-> [handler |-> "none", AddRouteMetaData |-> "none",
                              CorrelationId |-> "none"]]]
    /\ UNCHANGED <<handler, last>>

\* the error uuid.GenerateUUID returns when the entropy source fails
UUIDFailure ==
    [err |-> TRUE, id |-> EmptyString, text |-> "failed to read random bytes: unexpected EOF"]

\* the outcomes of uuid.GenerateUUID: an id, or an error
UUIDOutcomes ==
    [err : {FALSE}, id : { GenerateUUID(e) : e \in 1..MaxEntropy }, text : {""}]
        \cup { UUIDFailure }

\* request r has moved on from the log call it made, if the last one was its
Returned_From(r) ==
    IF last.op = "log" /\ last.by = r THEN [op |-> "none"] ELSE last

\* CorrelationId from uuid.GenerateUUID on.  With an id, up to its call of
\* next: the derived context, the rebind.  With an error, up to the return
\* of slog.ErrorContext, whose record takes its time from the clock; the
\* rest is CorrelationIdFallbackStep.
CorrelationIdStep(r) ==
    /\ reqs[r].pc = "CorrelationId"
    /\ \E uuid \in UUIDOutcomes :
        LET ctx0 == RequestContext(reqs, r)
        IN  IF uuid.err
            THEN \E now \in Clock :
                    LET logged == Logger_log(handler, ctx0, LevelError,
                                             "Error in generating unique correlation id " \o uuid.text,
                                             << >>, now, TRUE)
                    IN  /\ reqs' = [reqs EXCEPT ![r].pc = IF logged.panic THEN "panic"
                                                          ELSE "CorrelationIdFallback",
                                                ![r].uuidFailed = uuid.err]
                        /\ last' = [op |-> "log", by |-> r, stage |-> "CorrelationId", eff |-> logged]
            ELSE LET requestId == CorrelationId_Id(uuid, 1)
                 IN  /\ reqs' = [reqs EXCEPT ![r].pc = "AddRouteMetaData",
                                             ![r].requestId = requestId,
                                             ![r].ctx = CorrelationId_Context(ctx0, requestId),
                                             ![r].nextCalls.CorrelationId = @ + 1]
                     /\ UNCHANGED last
    /\ UNCHANGED handler

\* CorrelationId after the error was logged, up to its call of next:
\* randomString(32), seeded from a second reading of the clock, the derived
\* context, the rebind
CorrelationIdFallbackStep(r) ==
    /\ reqs[r].pc = "CorrelationIdFallback"
    /\ \E seed \in Clock :
        LET ctx0 == RequestContext(reqs, r)
            requestId == CorrelationId_Id(UUIDFailure, seed)
        IN  reqs' = [reqs EXCEPT ![r].pc = "AddRouteMetaData",
                                ![r].requestId = requestId,
                                ![r].ctx = CorrelationId_Context(ctx0, requestId),
                                ![r].nextCalls.CorrelationId = @ + 1]
    /\ last' = Returned_From(r)
    /\ UNCHANGED handler

\* AddRouteMetaData up to its call of next
AddRouteMetaDataStep(r) ==
    /\ reqs[r].pc = "AddRouteMetaData"
    /\ reqs' = [reqs EXCEPT ![r].pc = "handler",
                            ![r].ctx = AddRouteMetaData_Context(RequestContext(reqs, r), reqs[r].request),
                            ![r].nextCalls.AddRouteMetaData = @ + 1]
    /\ last' = Returned_From(r)
    /\ UNCHANGED handler

\* the routed handler: /get_customer and /get_bank log a faked value and
\* return nil; an unrouted request gets echo's error.  A panic in the log
\* call would end the request's goroutine.  The time of the log call and
\* the outcome of the write to os.Stdout are not varied here (SpecUnit varies
\* them; the frontend drops Handle's error either way).
HandlerStep(r) ==
    /\ reqs[r].pc = "handler"
    /\ LET route == Route(reqs[r].request)
           ctx == RequestContext(reqs, r)
       IN  \/ /\ route = "get_customer"
              /\ \E customer \in SomeCustomers :
                    LET logged == Logger_log(handler, ctx, LevelInfo, "Logging customer data",
                                             CustomerArgs(customer), 1, TRUE)
                    IN  /\ last' = [op |-> "log", by |-> r, stage |-> "handler", eff |-> logged]
                        /\ reqs' = [reqs EXCEPT ![r].pc = IF logged.panic THEN "panic" ELSE "return",
                                                ![r].ret.handler = IF logged.panic THEN @ ELSE "nil"]
           \/ /\ route = "get_bank"
              /\ \E bank \in SomeBanks :
                    LET logged == Logger_log(handler, ctx, LevelError, "Logging customer data",
                                             BankArgs(bank), 1, TRUE)
                    IN  /\ last' = [op |-> "log", by |-> r, stage |-> "handler", eff |-> logged]
                        /\ reqs' = [reqs EXCEPT ![r].pc = IF logged.panic THEN "panic" ELSE "return",
                                                ![r].ret.handler = IF logged.panic THEN @ ELSE "nil"]
           \/ /\ route \in {"NotFound", "MethodNotAllowed"}
              /\ reqs' = [reqs EXCEPT ![r].pc = "return", ![r].ret.handler = "Err" \o route]
              /\ UNCHANGED last
    /\ UNCHANGED handler

\* the chain unwinds: AddRouteMetaData returns what the handler returned,
\* CorrelationId what AddRouteMetaData returned; the server is done with the
\* request and releases it, keeping what the chain reported
ReturnStep(r) ==
    /\ reqs[r].pc = "return"
    /\ LET fromAddRouteMetaData == AddRouteMetaData_Return(reqs[r].ret.handler)
           fromCorrelationId == CorrelationId_Return(fromAddRouteMetaData)
       IN  reqs' = [reqs EXCEPT ![r] =
                      [pc |-> "done", nextCalls |-> reqs[r].nextCalls,
                       uuidFailed |-> reqs[r].uuidFailed,
                       ret |-> [handler |-> reqs[r].ret.handler,
                                AddRouteMetaData |-> fromAddRouteMetaData,
                                CorrelationId |-> fromCorrelationId]]]
    /\ last' = Returned_From(r)
    /\ UNCHANGED handler

Next ==
    \E r \in ReqIds :
        \/ Receive(r)
        \/ CorrelationIdStep(r)
        \/ CorrelationIdFallbackStep(r)
        \/ AddRouteMetaDataStep(r)
        \/ HandlerStep(r)
        \/ ReturnStep(r)

Spec == ServerInit /\ [][Next]_vars

(***************************************************************************)
(* SpecUnit: the exported operations driven directly, one call at a time,  *)
(* by a caller other than main: any context, level, record and derivation. *)
(***************************************************************************)
CtxKeys == Range(MetaKeys)
UnitBindings == [key : CtxKeys, val : {StringAny(S_test_agent), IntAny(42)}]
UnitContexts == SeqsUpTo(UnitBindings, MaxCtxLen)

UnitAttrSets == { << >>, << Attr("service", StringValue(S_curl)) >> }
UnitGroupNames == { "", "g" }
UnitArgs ==
    { << >> } \cup { CustomerArgs(c) : c \in SomeCustomers } \cup { BankArgs(b) : b \in SomeBanks }
        \cup { BankArgs(b) \o CustomerArgs(c) : b \in SomeBanks, c \in SomeCustomers }
UnitRecords ==
    { Record_AddAttrs(NewRecord(t, level, "msg"), args) :
        t \in Clock, level \in {LevelInfo, LevelError}, args \in UnitArgs }

UnitInit ==
    /\ handler = DefaultHandler
    /\ reqs = [r \in ReqIds |-> Idle]
    /\ last = [op |-> "none"]

UnitWithAttrs ==
    /\ last.op = "none"
    /\ Len(SinkOf(handler).pre) < MaxDerive
    /\ \E as \in UnitAttrSets :
        /\ handler' = Handler_WithAttrs(handler, as)
        /\ last' = [op |-> "WithAttrs", before |-> handler, as |-> as]
    /\ UNCHANGED reqs

UnitWithGroup ==
    /\ last.op = "none"
    /\ Len(SinkOf(handler).pre) < MaxDerive
    /\ \E name \in UnitGroupNames :
        /\ handler' = Handler_WithGroup(handler, name)
        /\ last' = [op |-> "WithGroup", before |-> handler, name |-> name]
    /\ UNCHANGED reqs

UnitEnabled ==
    /\ last.op = "none"
    /\ \E ctx \in UnitContexts, level \in Levels :
        last' = [op |-> "Enabled", ctx |-> ctx, level |-> level,
                 ret |-> Handler_Enabled(handler, ctx, level)]
    /\ UNCHANGED <<handler, reqs>>

UnitHandle ==
    /\ last.op = "none"
    /\ \E ctx \in UnitContexts, r \in UnitRecords, writeOk \in BOOLEAN :
        last' = [op |-> "Handle", ctx |-> ctx, rec |-> r, writeOk |-> writeOk,
                 eff |-> Handler_Handle(handler, ctx, r, writeOk)]
    /\ UNCHANGED <<handler, reqs>>

UnitLog ==
    /\ last.op = "none"
    /\ \E ctx \in UnitContexts, level \in Levels, args \in UnitArgs, now \in Clock :
        last' = [op |-> "Log", ctx |-> ctx, level |-> level, args |-> args,
                 eff |-> Logger_log(handler, ctx, level, "msg", args, now, TRUE)]
    /\ UNCHANGED <<handler, reqs>>

UnitGet ==
    /\ last.op = "none"
    /\ \E ctx \in UnitContexts, key \in CtxKeys :
        last' = [op |-> "get", ctx |-> ctx, key |-> key,
                 out |-> getDefaultValueFromContext(ctx, key)]
    /\ UNCHANGED <<handler, reqs>>

\* a Customer or a Bank logged as the only field of a record
UnitLogValuer ==
    /\ last.op = "none"
    /\ \E args \in { CustomerArgs(c) : c \in Customers } \cup { BankArgs(b) : b \in Banks } :
        last' = [op |-> "LogValuer", args |-> args,
                 eff |-> Logger_log(handler, Background, LevelInfo, "msg", args, 1, TRUE)]
    /\ UNCHANGED <<handler, reqs>>

\* the caller takes the result; the next call can be made
UnitReturn ==
    /\ last.op # "none"
    /\ last' = [op |-> "none"]
    /\ UNCHANGED <<handler, reqs>>

UnitNext ==
    \/ UnitWithAttrs
    \/ UnitWithGroup
    \/ UnitEnabled
    \/ UnitHandle
    \/ UnitLog
    \/ UnitGet
    \/ UnitLogValuer
    \/ UnitReturn

SpecUnit == UnitInit /\ [][UnitNext]_vars

(***************************************************************************)
(* legacy_logger.go: a second program with its own main.  Fruit names, the *)
(* error text and the printed lines are TLA+ strings; "nil" is the nil      *)
(* error.                                                                  *)
(***************************************************************************)
list == <<"apple", "orange", "banana", "kivi">>

FruitNames == Range(list)

\* if len(fruits) < index || index < 0 { return "", errors.New("not valid index") }
\* return fruits[index], nil
\* fruits[index] with index outside 0..len(fruits)-1 is a runtime panic
\* (index out of range); Go indexes from 0, sequences here from 1.
getFruitByIndex(index, fruits) ==
    IF Len(fruits) < index \/ index < 0
    THEN [panic |-> FALSE, fruit |-> "", err |-> "not valid index"]
    ELSE IF index + 1 \in DOMAIN fruits
         THEN [panic |-> FALSE, fruit |-> fruits[index + 1], err |-> "nil"]
         ELSE [panic |-> TRUE, fruit |-> "", err |-> "nil"]

\* log.SetFlags(log.LstdFlags | log.Lshortfile | log.Lmsgprefix); LstdFlags
\* is Ldate | Ltime
LogFlags == {"Ldate", "Ltime", "Lshortfile", "Lmsgprefix"}

\* main calls getFruitByIndex twice, one call after the other
MainCalls == 2

\* main after log.SetFlags, at its first call: index 1 on list in the
\* program, any index and list within the bounds here
LegacyInit ==
    /\ handler = DefaultHandler
    /\ reqs = [r \in ReqIds |-> Idle]
    /\ \E index \in (0 - 1)..(MaxFruits + 1), fruits \in SeqsUpTo(FruitNames, MaxFruits) :
        last = [op |-> "call", n |-> 1, index |-> index, fruits |-> fruits, flags |-> LogFlags]

\* fruit, err := getFruitByIndex(index, list...)
LegacyCall ==
    /\ last.op = "call"
    /\ last' = [op |-> "getFruitByIndex", n |-> last.n, index |-> last.index,
                fruits |-> last.fruits, flags |-> last.flags,
                out |-> getFruitByIndex(last.index, last.fruits)]
    /\ UNCHANGED <<handler, reqs>>

\* if err != nil { log.Printf(...) } else { fmt.Printf(...) }: the error goes
\* to the standard logger (stderr, prefixed as the flags say), the fruit to
\* stdout
LegacyReport ==
    /\ last.op = "getFruitByIndex"
    /\ ~last.out.panic
    /\ last' = [op |-> "reported", n |-> last.n, fruits |-> last.fruits, flags |-> last.flags,
                line |-> IF last.out.err # "nil"
                         THEN [stream |-> "stderr", prefix |-> last.flags,
                               format |-> "Error in fetching fruit. Error: %s",
                               arg |-> last.out.err]
                         ELSE [stream |-> "stdout", prefix |-> {},
                               format |-> "You will choosed fruit %s\n",
                               arg |-> last.out.fruit]]
    /\ UNCHANGED <<handler, reqs>>

\* main goes on to its next call on the same list: index 5 in the program,
\* any index within the bounds here
LegacyNextCall ==
    /\ last.op = "reported"
    /\ last.n < MainCalls
    /\ \E index \in (0 - 1)..(MaxFruits + 1) :
        last' = [op |-> "call", n |-> last.n + 1, index |-> index,
                 fruits |-> last.fruits, flags |-> last.flags]
    /\ UNCHANGED <<handler, reqs>>

\* main returns after the last report
LegacyExit ==
    /\ last.op = "reported"
    /\ last.n = MainCalls
    /\ last' = [op |-> "exited"]
    /\ UNCHANGED <<handler, reqs>>

\* the panic of an out-of-range index is not recovered: the program ends
LegacyCrash ==
    /\ last.op = "getFruitByIndex"
    /\ last.out.panic
    /\ last' = [op |-> "crashed"]
    /\ UNCHANGED <<handler, reqs>>

LegacyNext ==
    \/ LegacyCall
    \/ LegacyReport
    \/ LegacyNextCall
    \/ LegacyExit
    \/ LegacyCrash

SpecLegacy == LegacyInit /\ [][LegacyNext]_vars

(***************************************************************************)
(* Properties of the operations driven directly (SpecUnit).                *)
(***************************************************************************)
IsLogOp == last.op \in {"Handle", "Log", "LogValuer"}

\* the attributes of record rec that are the metadata group
MetaAttrs(rec) == { i \in DOMAIN rec.attrs : rec.attrs[i].key = "meta_information" }

\* rec carries exactly one metadata group, a Group of four String attributes
\* keyed correlation_id, request_method, request_path, request_user_agent
HasMetaGroup(rec) ==
    /\ Cardinality(MetaAttrs(rec)) = 1
    /\ \A i \in MetaAttrs(rec) :
        LET v == rec.attrs[i].value
        IN  /\ v.kind = "Group"
            /\ Len(v.attrs) = Len(MetaKeys)
            /\ \A k \in DOMAIN MetaKeys :
                /\ v.attrs[k].key = MetaKeys[k]
                /\ v.attrs[k].value.kind = "String"

\* the String under key k of rec's metadata group
MetaOf(rec, k) ==
    LET i == CHOOSE j \in MetaAttrs(rec) : TRUE
        v == rec.attrs[i].value
        n == CHOOSE m \in DOMAIN v.attrs : v.attrs[m].key = k
    IN  v.attrs[n].value.s

\* C4 (as claimed): the accessor never panics; it returns the bound string,
\* and the empty string when the key is unbound or bound to a non-string.
C4_GetNeverFails ==
    last.op = "get" =>
        /\ ~last.out.panic
        /\ LET bound == Value(last.ctx, last.key)
           IN  last.out.value = IF bound.t = "string" THEN bound.s ELSE EmptyString

\* C5: whatever WithAttrs / WithGroup derivations were made, the handler in
\* use is a ContextHandler around the sink derived the same way, and every
\* record it hands to that sink carries the meta_information group.
C5_DerivedStillEnriches ==
    /\ handler.type = "ContextHandler"
    /\ last.op = "WithAttrs" =>
        handler.Handler = JSONHandler_WithAttrs(last.before.Handler, last.as)
    /\ last.op = "WithGroup" =>
        handler.Handler = JSONHandler_WithGroup(last.before.Handler, last.name)
    /\ IsLogOp =>
        \A i \in DOMAIN last.eff.sunk :
            /\ last.eff.sunk[i].sink = handler.Handler
            /\ HasMetaGroup(last.eff.sunk[i].rec)

C5_Witness ==
    /\ handler.type = "ContextHandler"
    /\ Len(handler.Handler.pre) >= 2
    /\ \E i \in DOMAIN handler.Handler.pre : handler.Handler.pre[i].op = "attrs"
    /\ \E i \in DOMAIN handler.Handler.pre : handler.Handler.pre[i].op = "group"
    /\ last.op = "Handle"
    /\ Len(last.eff.sunk) = 1
    /\ HasMetaGroup(last.eff.sunk[1].rec)

\* C6 (as claimed): Handle never raises, for any context and record; it calls
\* the sink's Handle exactly once and returns exactly what the sink returned.
C6_HandleNeverRaises ==
    last.op = "Handle" =>
        /\ ~last.eff.panic
        /\ Len(last.eff.sunk) = 1
        /\ last.eff.ret = IF last.writeOk THEN "nil" ELSE "write error"

\* C7: Enabled answers exactly as the sink's level check does (level >= the
\* sink's minimum), so a log call below the minimum reaches no sink and a
\* call at or above it is not suppressed.
C7_EnabledDelegates ==
    /\ last.op = "Enabled" =>
        (last.ret <=> last.level >= SinkOf(handler).minLevel)
    /\ last.op = "Log" =>
        IF last.level >= SinkOf(handler).minLevel
        THEN last.eff.panic \/ Len(last.eff.sunk) = 1
        ELSE ~last.eff.panic /\ last.eff.sunk = << >>

C7_Witness ==
    /\ last.op = "Enabled"
    /\ last.level < LevelInfo
    /\ last.ret = FALSE
    /\ Len(SinkOf(handler).pre) >= 1

\* C9: a logged Customer is written as a group whose only key is user_id,
\* and what is written is the same for every Customer with that UserId:
\* Name, EmailId and GSTNumber have no influence on the line.
C9_CustomerOnlyUserId ==
    (last.op = "LogValuer" /\ last.args[1].key = "customer") =>
        /\ Len(last.eff.sunk) = 1
        /\ LET written == last.eff.sunk[1].line.attrs[1]
               c == last.args[1].value.any
           IN  /\ written.key = "customer"
               /\ written.value.kind = "Group"
               /\ [i \in DOMAIN written.value.attrs |-> written.value.attrs[i].key] = <<"user_id">>
               /\ written.value.attrs[1].value = StringValue(c.UserId)
               /\ \A c2 \in Customers :
                    c2.UserId = c.UserId =>
                        JSONLine(last.eff.sunk[1].sink,
                                 Record_AddAttrs(NewRecord(1, LevelInfo, "msg"), CustomerArgs(c2))).attrs[1]
                          = written

C9_Witness ==
    /\ last.op = "LogValuer"
    /\ last.args[1].key = "customer"
    /\ last.args[1].value.any.Name = <<"n","2">>
    /\ last.args[1].value.any.GSTNumber = <<"g","2">>
    /\ Len(last.eff.sunk) = 1
    /\ last.eff.sunk[1].written

\* C10: a logged Bank is written as the single integer BranchId under its
\* key, not as a group, whatever its other fields hold.
C10_BankIsBranchId ==
    (last.op = "LogValuer" /\ last.args[1].key = "bank") =>
        /\ Len(last.eff.sunk) = 1
        /\ LET written == last.eff.sunk[1].line.attrs[1]
               b == last.args[1].value.any
           IN  /\ written.key = "bank"
               /\ written.value.kind = "Int64"
               /\ written.value.n = b.BranchId

C10_Witness ==
    /\ last.op = "LogValuer"
    /\ last.args[1].key = "bank"
    /\ Len(last.args[1].value.any.Customers) >= 1
    /\ last.args[1].value.any.BranchSecret = <<"s","2">>
    /\ Len(last.eff.sunk) = 1
    /\ last.eff.sunk[1].line.attrs[1].value = IntValue(7)

(***************************************************************************)
(* Properties of the server (Spec).                                        *)
(***************************************************************************)
\* what was captured for the request in state q under metadata key k
Captured(q, k) ==
    CASE k = "correlation_id" -> q.requestId
      [] k = "request_method" -> q.request.Method
      [] k = "request_path" -> RequestURI(q.request)
      [] k = "request_user_agent" -> q.request.UserAgent

\* C1: every log call of a request, made before or after the middlewares
\* bound their keys, hands the sink one record with a meta_information group
\* of exactly the four keys, each a string that is the value captured for the
\* request or the empty string.
C1_MetaGroupAlways ==
    last.op = "log" =>
        /\ ~last.eff.panic
        /\ Len(last.eff.sunk) = 1
        /\ HasMetaGroup(last.eff.sunk[1].rec)
        /\ \A k \in Range(MetaKeys) :
            MetaOf(last.eff.sunk[1].rec, k) \in {Captured(reqs[last.by], k), EmptyString}

C1_Witness ==
    /\ last.op = "log"
    /\ last.stage = "CorrelationId"
    /\ Len(last.eff.sunk) = 1
    /\ HasMetaGroup(last.eff.sunk[1].rec)
    /\ \A k \in Range(MetaKeys) : MetaOf(last.eff.sunk[1].rec, k) = EmptyString
    /\ reqs[last.by].request.UserAgent # EmptyString

\* C2: with requests interleaved in any way, a record logged by a request
\* holds that request's own id, method, path and user agent (all four once
\* both middlewares have run, none before CorrelationId has bound the id),
\* whatever the other requests in flight hold.
C2_NoCrossTalk ==
    last.op = "log" =>
        /\ Len(last.eff.sunk) = 1
        /\ HasMetaGroup(last.eff.sunk[1].rec)
        /\ \A k \in Range(MetaKeys) :
            MetaOf(last.eff.sunk[1].rec, k) =
                IF last.stage = "handler" THEN Captured(reqs[last.by], k) ELSE EmptyString

C2_Witness ==
    /\ last.op = "log"
    /\ last.stage = "handler"
    /\ \E r \in ReqIds :
        /\ r < last.by
        /\ reqs[r].pc \in {"handler", "return"}
        /\ \A k \in {"correlation_id", "request_path", "request_user_agent"} :
            /\ Captured(reqs[r], k) # Captured(reqs[last.by], k)
            /\ Captured(reqs[r], k) # EmptyString
            /\ MetaOf(last.eff.sunk[1].rec, k) = Captured(reqs[last.by], k)

\* C3: when uuid.GenerateUUID fails, the request's id is 32 characters of
\* a-z, A-Z, 0-9; the next stage is called with that id bound, the records
\* logged downstream carry it as correlation_id, and the chain reports what
\* the handler returned, not the failure.
C3_FallbackId ==
    /\ \A r \in ReqIds :
        (reqs[r].pc \in {"AddRouteMetaData", "handler", "return"} /\ reqs[r].uuidFailed) =>
            /\ Len(reqs[r].requestId) = IdLength
            /\ Range(reqs[r].requestId) \subseteq Range(charset)
            /\ reqs[r].nextCalls.CorrelationId = 1
            /\ Value(reqs[r].ctx, "correlation_id") = StringAny(reqs[r].requestId)
    /\ \A r \in ReqIds :
        (reqs[r].pc = "done" /\ reqs[r].uuidFailed) =>
            reqs[r].ret.CorrelationId = reqs[r].ret.handler
    /\ (last.op = "log" /\ last.stage = "handler" /\ reqs[last.by].uuidFailed) =>
            /\ Len(last.eff.sunk) = 1
            /\ HasMetaGroup(last.eff.sunk[1].rec)
            /\ MetaOf(last.eff.sunk[1].rec, "correlation_id") = reqs[last.by].requestId
            /\ Len(MetaOf(last.eff.sunk[1].rec, "correlation_id")) = IdLength

C3_Witness ==
    /\ last.op = "log"
    /\ last.stage = "handler"
    /\ reqs[last.by].uuidFailed
    /\ Len(MetaOf(last.eff.sunk[1].rec, "correlation_id")) = IdLength
    /\ Cardinality(Range(MetaOf(last.eff.sunk[1].rec, "correlation_id"))) > 16

\* C8: each middleware calls the next stage exactly once, with the request
\* already rebound to its derived context, and reports what the next stage
\* returned, also when id generation failed.
C8_PassThrough ==
    \A r \in ReqIds :
        /\ reqs[r].pc \in {"CorrelationId", "CorrelationIdFallback"} =>
            reqs[r].nextCalls = [CorrelationId |-> 0, AddRouteMetaData |-> 0]
        /\ reqs[r].pc = "AddRouteMetaData" =>
            /\ reqs[r].nextCalls = [CorrelationId |-> 1, AddRouteMetaData |-> 0]
            /\ Value(reqs[r].ctx, "correlation_id") = StringAny(reqs[r].requestId)
        /\ reqs[r].pc \in {"handler", "return"} =>
            /\ reqs[r].nextCalls = [CorrelationId |-> 1, AddRouteMetaData |-> 1]
            /\ \A k \in Range(MetaKeys) :
                Value(reqs[r].ctx, k) = StringAny(Captured(reqs[r], k))
        /\ reqs[r].pc = "done" =>
            /\ reqs[r].nextCalls = [CorrelationId |-> 1, AddRouteMetaData |-> 1]
            /\ reqs[r].ret.handler \in {"nil", "ErrNotFound", "ErrMethodNotAllowed"}
            /\ reqs[r].ret.AddRouteMetaData = reqs[r].ret.handler
            /\ reqs[r].ret.CorrelationId = reqs[r].ret.handler

C8_Witness ==
    \E r \in ReqIds :
        /\ reqs[r].pc = "done"
        /\ reqs[r].uuidFailed
        /\ reqs[r].ret.CorrelationId = "ErrNotFound"
        /\ reqs[r].nextCalls = [CorrelationId |-> 1, AddRouteMetaData |-> 1]

\* s has the format of uuid.GenerateUUID: 8-4-4-4-12 hexadecimal digits
IsUUID(s) ==
    /\ Len(s) = 36
    /\ \A i \in 1..36 :
        IF i \in {9, 14, 19, 24} THEN s[i] = "-" ELSE s[i] \in Range(hexDigits)

\* the request of the example: GET /get_customer with User-Agent test-agent
ExampleRequest ==
    [Method |-> S_GET, Path |-> S_get_customer, RawQuery |-> EmptyString, UserAgent |-> S_test_agent]

\* C11: once CorrelationId and then AddRouteMetaData have run, the context
\* the handler sees is the context CorrelationId made, extended: it still
\* starts with the binding of correlation_id to the generated id, and binds
\* all four keys at once (the id, the method, the full request URI, the
\* User-Agent).  A GET /get_customer with User-Agent test-agent is logged
\* with exactly GET, /get_customer, test-agent and an id in the generator's
\* format.
C11_AllFourBound ==
    /\ \A r \in ReqIds :
        reqs[r].pc \in {"handler", "return"} =>
            LET ctx == reqs[r].ctx
                q == reqs[r].request
            IN  /\ Len(ctx) = Len(MetaKeys)
                /\ SubSeq(ctx, 1, 1) = CorrelationId_Context(Background, reqs[r].requestId)
                /\ Value(ctx, "correlation_id") = StringAny(reqs[r].requestId)
                /\ Value(ctx, "request_method") = StringAny(q.Method)
                /\ Value(ctx, "request_path") = StringAny(q.Path \o (IF q.RawQuery = EmptyString THEN EmptyString ELSE <<"?">> \o q.RawQuery))
                /\ Value(ctx, "request_user_agent") = StringAny(q.UserAgent)
                /\ IF reqs[r].uuidFailed
                   THEN Len(reqs[r].requestId) = IdLength
                   ELSE IsUUID(reqs[r].requestId)
    /\ (last.op = "log" /\ last.stage = "handler" /\ reqs[last.by].request = ExampleRequest) =>
            /\ Len(last.eff.sunk) = 1
            /\ HasMetaGroup(last.eff.sunk[1].rec)
            /\ MetaOf(last.eff.sunk[1].rec, "request_method") = S_GET
            /\ MetaOf(last.eff.sunk[1].rec, "request_path") = S_get_customer
            /\ MetaOf(last.eff.sunk[1].rec, "request_user_agent") = S_test_agent
            /\ MetaOf(last.eff.sunk[1].rec, "correlation_id") = reqs[last.by].requestId
            /\ last.eff.sunk[1].rec.attrs[1].key = "customer"

C11_Witness ==
    /\ last.op = "log"
    /\ last.stage = "handler"
    /\ reqs[last.by].request = ExampleRequest
    /\ ~reqs[last.by].uuidFailed
    /\ Len(reqs[last.by].ctx) = 4
    /\ IsUUID(MetaOf(last.eff.sunk[1].rec, "correlation_id"))
    /\ MetaOf(last.eff.sunk[1].rec, "request_user_agent") = S_test_agent

\* C12: in every record Handle delivers to the sink, the attributes the
\* record had when Handle was called come first, unchanged and in their
\* order, the meta_information group is the one attribute after them, and
\* time, level and message are the ones of the record passed in; the line
\* the sink writes keeps that order.
C12_MetaAppendedLast ==
    last.op = "Handle" =>
        \A i \in DOMAIN last.eff.sunk :
            LET out == last.eff.sunk[i].rec
                line == last.eff.sunk[i].line
                n == Len(last.rec.attrs)
            IN  /\ Len(out.attrs) = n + 1
                /\ \A j \in 1..n : out.attrs[j] = last.rec.attrs[j]
                /\ out.attrs[n + 1].key = "meta_information"
                /\ out.attrs[n + 1].value.kind = "Group"
                /\ \A j \in 1..n : out.attrs[j].key # "meta_information"
                /\ out.time = last.rec.time
                /\ out.level = last.rec.level
                /\ out.msg = last.rec.msg
                /\ [j \in DOMAIN line.attrs |-> line.attrs[j].key]
                     = [j \in 1..n |-> last.rec.attrs[j].key] \o <<"meta_information">>
                /\ <<line.time, line.level, line.msg>>
                     = <<last.rec.time, last.rec.level, last.rec.msg>>

C12_Witness ==
    /\ last.op = "Handle"
    /\ Len(last.rec.attrs) = 2
    /\ last.rec.level = LevelError
    /\ last.rec.time > 1
    /\ Len(last.eff.sunk) = 1
    /\ Len(last.eff.sunk[1].rec.attrs) = 3
    /\ last.eff.sunk[1].rec.attrs[3].key = "meta_information"
    /\ last.eff.sunk[1].rec.attrs[1].key = "bank"

\* C13: a request's correlation id is made once, by CorrelationId, and then
\* stays: no later step of the request (AddRouteMetaData, the handler, the
\* return) changes the id or what the request's context binds under
\* correlation_id, CorrelationId calls the next stage once, and a record
\* logged downstream carries the id CorrelationId bound.
C13_StableId ==
    [][\A r \in ReqIds :
        /\ (reqs[r].pc \in {"CorrelationId", "CorrelationIdFallback"}
              /\ reqs'[r].pc = "AddRouteMetaData") =>
            /\ reqs[r].requestId = EmptyString
            /\ reqs'[r].nextCalls.CorrelationId = 1
            /\ Value(reqs'[r].ctx, "correlation_id") = StringAny(reqs'[r].requestId)
        /\ (reqs[r].pc = "CorrelationId" /\ reqs'[r].pc = "CorrelationIdFallback") =>
            /\ reqs'[r].requestId = EmptyString
            /\ reqs'[r].ctx = reqs[r].ctx
            /\ reqs'[r].nextCalls.CorrelationId = 0
        /\ (reqs[r].pc \in {"AddRouteMetaData", "handler", "return"}
              /\ reqs'[r].pc \in {"AddRouteMetaData", "handler", "return"}) =>
            /\ reqs'[r].requestId = reqs[r].requestId
            /\ reqs'[r].nextCalls.CorrelationId = reqs[r].nextCalls.CorrelationId
            /\ Value(reqs'[r].ctx, "correlation_id") = Value(reqs[r].ctx, "correlation_id")
            /\ Value(reqs'[r].ctx, "correlation_id") = StringAny(reqs[r].requestId)
        /\ (reqs[r].pc = "handler" /\ last'.op = "log" /\ last' # last /\ last'.by = r) =>
            \A i \in DOMAIN last'.eff.sunk :
                MetaOf(last'.eff.sunk[i].rec, "correlation_id") = reqs[r].requestId
    ]_vars

C13_Witness ==
    /\ last.op = "log"
    /\ last.stage = "handler"
    /\ reqs[last.by].pc = "return"
    /\ reqs[last.by].request.Path = S_get_bank
    /\ reqs[last.by].requestId # EmptyString
    /\ Value(reqs[last.by].ctx, "correlation_id") = StringAny(reqs[last.by].requestId)
    /\ MetaOf(last.eff.sunk[1].rec, "correlation_id") = reqs[last.by].requestId

(***************************************************************************)
(* Properties of legacy_logger.go (SpecLegacy).                            *)
(***************************************************************************)
\* C14 (as claimed): getFruitByIndex never indexes outside the list: for an
\* index in 0..len(fruits)-1 it returns fruits[index] and a nil error, and
\* for every other index (negative, equal to len(fruits), greater) it
\* returns the empty string and the error "not valid index".
C14_FruitIndexChecked ==
    last.op = "getFruitByIndex" =>
        /\ ~last.out.panic
        /\ IF last.index \in 0..(Len(last.fruits) - 1)
           THEN last.out.fruit = last.fruits[last.index + 1] /\ last.out.err = "nil"
           ELSE last.out.fruit = "" /\ last.out.err = "not valid index"
====
